---- MODULE Spec2Model ----
(***************************************************************************)
(* Livestream reservation (booking) engine of isupipe:                     *)
(* reserveLivestreamHandler in livestream_handler.go, run by several       *)
(* concurrent requests against one MySQL/InnoDB store, and the handlers    *)
(* that read livestreams back (search, list by owner, list by user name,   *)
(* get by id) with the two ways they compose the response.                 *)
(*                                                                         *)
(* Time is in model units of half a slot (a slot row is one hour in the    *)
(* seeded data, SlotWidth units here).  int64 values are kept in a scaled  *)
(* two's-complement range MinInt64..MaxInt64 so that the wrap-around of    *)
(* time.Unix is part of the model.                                         *)
(*                                                                         *)
(* Store model: a table row carries the value the owning transaction last  *)
(* wrote.  Rows inserted by an open transaction are tagged tx = r (r the   *)
(* request), committed rows have tx = 0.  Slot rows decremented by an open *)
(* transaction are listed in undo[r]; rollback re-increments them.         *)
(***************************************************************************)
EXTENDS Integers, Sequences, FiniteSets, TLC

\* ---------------------------------------------------------------- bounds
NumReqs == 2          \* reserve requests in one run
NumSlots == 3         \* seeded reservation_slots rows
MaxCapacity == 1      \* slot value every row is seeded with
MaxInt64 == 31        \* scaled math.MaxInt64
MaxRecords == 2       \* livestreams in a store that is only read

\* ------------------------------------------------------------- constants
termStartAt == 2      \* time.Date(2023, 11, 25, 1, ...).Unix(), scaled
termEndAt == 8        \* time.Date(2024, 11, 25, 1, ...).Unix(), scaled
unixToInternal == 8   \* offset time.Unix adds to the seconds, scaled
SlotWidth == 2        \* end_at - start_at of a seeded slot row

MinInt64 == -MaxInt64 - 1
Reqs == 1..NumReqs
SlotIds == 1..NumSlots
Users == {1, 2}       \* ids of the rows of table users
TagCatalog == {1, 2}  \* ids of the rows of table tags

\* users.name and tags.name (both UNIQUE KEYs) of those rows.
UserName(u) == IF u = 1 THEN "user1" ELSE "user2"
TagName(t) == IF t = 1 THEN "tag1" ELSE "tag2"

\* int64 addition as Go computes it (two's complement wrap-around).
WrapInt64(x) == ((x - MinInt64) % (2 * MaxInt64 + 2)) + MinInt64

\* time.Unix(sec, 0): the seconds field of the Time value it builds.
timeUnix(sec) == WrapInt64(sec + unixToInternal)

\* time.Date(...) of the two term bounds (no wrap: both are small).
timeDate(sec) == sec + unixToInternal

\* line 104: the term check of reserveLivestreamHandler; TRUE = reject.
BadTermRange(startAt, endAt) ==
    \/ timeUnix(startAt) = timeDate(termEndAt)
    \/ timeUnix(startAt) > timeDate(termEndAt)
    \/ timeUnix(endAt) = timeDate(termStartAt)
    \/ timeUnix(endAt) < timeDate(termStartAt)

VARIABLES
    reservation_slots,    \* [SlotIds -> [slot, start_at, end_at]]
    livestreams,          \* set of [id, user_id, title, ..., start_at, end_at, tx]
    livestream_tags,      \* set of [id, livestream_id, tag_id, tx]
    nextLivestreamID,     \* AUTO_INCREMENT of livestreams
    nextLivestreamTagID,  \* AUTO_INCREMENT of livestream_tags
    themes,               \* ids of the users that have a row in table themes
    rowLock,              \* [SlotIds -> 0 | request holding the row's X lock]
    undo,                 \* [Reqs -> slot rows decremented by the open tx]
    pc,                   \* [Reqs -> position in reserveLivestreamHandler]
    req,                  \* [Reqs -> decoded request and session user]
    plan,                 \* [Reqs -> how the locking read scans the table]
    scanned,              \* [Reqs -> rows the locking read has passed]
    slots,                \* [Reqs -> result of the locking read (slot ids)]
    idx,                  \* [Reqs -> loop index (slots loop, tags loop)]
    livestreamID,         \* [Reqs -> LastInsertId of the livestream insert]
    livestream,           \* [Reqs -> what fillLivestreamResponse returned]
    result,               \* [Reqs -> HTTP outcome]
    response,             \* outcome of the last read request
    seed,                 \* [SlotIds -> slot value seeded before the run]
    inputs                \* what requests of this run are drawn from

dbVars == <<reservation_slots, livestreams, livestream_tags, rowLock, undo>>
idVars == <<nextLivestreamID, nextLivestreamTagID>>
envVars == <<seed, inputs, themes, response>>
reqVars == <<pc, req, plan, scanned, slots, idx, livestreamID, livestream, result>>
vars == <<reservation_slots, livestreams, livestream_tags, nextLivestreamID,
          nextLivestreamTagID, themes, rowLock, undo, pc, req, plan, scanned, slots,
          idx, livestreamID, livestream, result, response, envVars>>

\* A result is echo's HTTP error (or the success status): the message sent
\* is msg, followed by detail where the handler appends err.Error().
NoReq ==
    [start_at |-> 0, end_at |-> 0, tags |-> <<>>, user_id |-> 0, title |-> "",
     description |-> "", playlist_url |-> "", thumbnail_url |-> ""]
NoResult == [status |-> 0, msg |-> "", detail |-> ""]
NoResponse ==
    [op |-> "", arg |-> <<>>, status |-> 0, msg |-> "", detail |-> "", body |-> <<>>,
     nilTags |-> {}, userFetches |-> 0, tagFetches |-> 0]
InTx == {"validate", "select_for_update", "check", "update", "insert",
         "tags", "fill", "commit"}

\* ------------------------------------------------------------- the store
\* The predicate without its end_at part.
MatchesStartOnly(s, startAt, endAt) == reservation_slots[s].start_at >= startAt

\* WHERE start_at >= ? AND end_at <= ? (lines 111 and 138)
Matches(s, startAt, endAt) ==
    reservation_slots[s].start_at >= startAt /\ reservation_slots[s].end_at <= endAt

MatchedSlots(r) == {s \in SlotIds : Matches(s, req[r].start_at, req[r].end_at)}

\* Ascending sequence of a set of slot ids (ids ascend with start_at, so this
\* is the order of the primary key and of the index startend alike).
RECURSIVE Ascending(_)
Ascending(S) ==
    IF S = {} THEN <<>>
    ELSE LET m == CHOOSE x \in S : \A y \in S : x <= y
         IN <<m>> \o Ascending(S \ {m})

Reverse(s) == [i \in 1..Len(s) |-> s[Len(s) + 1 - i]]

\* A read that takes no row lock (the statement without FOR UPDATE).
ScanRowsNoLock(r) == <<>>

\* A range scan that runs down the index while the other scans run up.
ScanRowsMixedOrder(r) ==
    IF plan[r] = "exact" THEN Ascending(MatchedSlots(r))
    ELSE Reverse(Ascending({s \in SlotIds : reservation_slots[s].start_at >= req[r].start_at}))

\* Rows the locking read of line 111 leaves locked, in the order it locks
\* them.  The table is InnoDB (line 844), which locks the index records a
\* statement scans and not the rows its WHERE clause accepts.  Which records
\* stay locked depends on the isolation level and the access path, neither
\* of which the handler sets (BeginTxx(ctx, nil)):
\*   "exact"  only the rows returned stay locked (READ COMMITTED);
\*   "range"  the scan of KEY startend (line 843) from start_at >= ? to the
\*            end of the index, under REPEATABLE READ: rows that fail
\*            end_at <= ? stay locked too.
ScanRows(r) ==
    IF plan[r] = "exact" THEN Ascending(MatchedSlots(r))
    ELSE Ascending({s \in SlotIds : reservation_slots[s].start_at >= req[r].start_at})

\* What transactions other than the writer can see: committed data.
CommittedSlot(s) ==
    reservation_slots[s].slot + Cardinality({r \in Reqs : s \in undo[r]})
CommittedLivestreams == {l \in livestreams : l.tx = 0}
CommittedTags == {t \in livestream_tags : t.tx = 0}
Committed == <<[s \in SlotIds |-> CommittedSlot(s)], CommittedLivestreams, CommittedTags>>

\* -------------------------------------------------- response composition
\* The icon hash of an owner, which both compositions compute alike from
\* the icons row or the fallback image, is left out of the User.
\* Go's zero values of User and Livestream.
NoUser == [id |-> 0, name |-> "", theme |-> 0]
NoLivestream ==
    [id |-> 0, owner |-> NoUser, title |-> "", description |-> "", playlist_url |-> "",
     thumbnail_url |-> "", tags |-> <<>>, start_at |-> 0, end_at |-> 0]

\* err.Error() of sql.ErrNoRows, and of a lock wait that timed out.
ErrNoRows == "sql: no rows in result set"
LockWaitTimeout == "Error 1205 (HY000): Lock wait timeout exceeded; try restarting transaction"
SyntaxError == "Error 1064 (42000): You have an error in your SQL syntax"

\* A model that always names the first user as the owner.
livestreamModelFirstUser(r, id) ==
    [id |-> id, user_id |-> 1, title |-> req[r].title,
     description |-> req[r].description, playlist_url |-> req[r].playlist_url,
     thumbnail_url |-> req[r].thumbnail_url,
     start_at |-> req[r].start_at, end_at |-> req[r].end_at]

\* lines 126-136 and 151: the LivestreamModel of a request, with its id.
livestreamModel(r, id) ==
    [id |-> id, user_id |-> req[r].user_id, title |-> req[r].title,
     description |-> req[r].description, playlist_url |-> req[r].playlist_url,
     thumbnail_url |-> req[r].thumbnail_url,
     start_at |-> req[r].start_at, end_at |-> req[r].end_at]

\* A LivestreamModel as the row transaction w inserts (line 142), and the
\* LivestreamModel a SELECT * scans a row into.
Row(m, w) ==
    [id |-> m.id, user_id |-> m.user_id, title |-> m.title, description |-> m.description,
     playlist_url |-> m.playlist_url, thumbnail_url |-> m.thumbnail_url,
     start_at |-> m.start_at, end_at |-> m.end_at, tx |-> w]
Scan(row) ==
    [id |-> row.id, user_id |-> row.user_id, title |-> row.title,
     description |-> row.description, playlist_url |-> row.playlist_url,
     thumbnail_url |-> row.thumbnail_url, start_at |-> row.start_at, end_at |-> row.end_at]

\* Rows transaction w reads: the committed ones and its own.  The handlers
\* that only read are transaction 0: they write nothing.
Seen(w, table) == {row \in table : row.tx \in {0, w}}

\* The rows of S in the order of their primary key.
RECURSIVE OrderByID(_)
OrderByID(S) ==
    IF S = {} THEN <<>>
    ELSE LET m == CHOOSE x \in S : \A y \in S : x.id <= y.id
         IN <<m>> \o OrderByID(S \ {m})

\* fillUserResponse (user_handler.go): the User of users row u, with the
\* theme row of the user; no theme row is an error.
fillUserResponse(u) ==
    IF u \in themes
    THEN [err |-> "", user |-> [id |-> u, name |-> UserName(u), theme |-> u]]
    ELSE [err |-> ErrNoRows, user |-> NoUser]

\* lines 647-650: the Tag of tags row t.
TagOf(t) == [id |-> t, name |-> TagName(t)]

\* The links of a livestream, newest first.
LinksNewestFirst(w, id) ==
    Reverse(OrderByID({t \in Seen(w, livestream_tags) : t.livestream_id = id}))

\* line 636: SELECT * FROM livestream_tags WHERE livestream_id = ?.  The
\* statement has no ORDER BY; InnoDB reads the rows through KEY
\* livestream_id (line 751) or the primary key, in both in the order of id.
LinksOf(w, id) == OrderByID({t \in Seen(w, livestream_tags) : t.livestream_id = id})

\* An assembly that takes the two URLs for each other.
AggregateSwapped(m, owner, tags) ==
    [id |-> m.id, owner |-> owner, title |-> m.title, description |-> m.description,
     playlist_url |-> m.thumbnail_url, thumbnail_url |-> m.playlist_url,
     tags |-> tags, start_at |-> m.start_at, end_at |-> m.end_at]

\* lines 653-664: the Livestream assembled from the record, its owner and
\* its tags.
Aggregate(m, owner, tags) ==
    [id |-> m.id, owner |-> owner, title |-> m.title, description |-> m.description,
     playlist_url |-> m.playlist_url, thumbnail_url |-> m.thumbnail_url,
     tags |-> tags, start_at |-> m.start_at, end_at |-> m.end_at]

\* A composition that takes a link to a tag without tags row for a tag.
fillLivestreamResponseAnyTag(w, m) ==
    LET owner == fillUserResponse(m.user_id)
        links == LinksOf(w, m.id)
        failed(e) == [err |-> e, livestream |-> NoLivestream]
    IN IF m.user_id \notin Users THEN failed(ErrNoRows)
       ELSE IF owner.err # "" THEN failed(owner.err)
       ELSE [err |-> "",
             livestream |->
                Aggregate(m, owner.user, [i \in 1..Len(links) |-> TagOf(links[i].tag_id)])]

\* lines 625-665: single-item composition inside transaction w.
fillLivestreamResponse(w, m) ==
    LET owner == fillUserResponse(m.user_id)
        links == LinksOf(w, m.id)
        failed(e) == [err |-> e, livestream |-> NoLivestream]
    IN IF m.user_id \notin Users THEN failed(ErrNoRows)
       ELSE IF owner.err # "" THEN failed(owner.err)
       ELSE IF \E i \in 1..Len(links) : links[i].tag_id \notin TagCatalog THEN failed(ErrNoRows)
       ELSE [err |-> "",
             livestream |->
                Aggregate(m, owner.user, [i \in 1..Len(links) |-> TagOf(links[i].tag_id)])]

\* ---- tx.Rollback() (deferred, line 95) and tx.Commit() (line 168)
\* A rollback that does not give the decrements back.
RollbackKeepsSlots(r) == reservation_slots

\* A rollback that gives back one unit more than the transaction took.
RollbackRefunds(r) ==
    [s \in SlotIds |->
        IF s \in undo[r]
        THEN [reservation_slots[s] EXCEPT !.slot = @ + 2]
        ELSE reservation_slots[s]]

RollbackSlots(r) ==
    [s \in SlotIds |->
        IF s \in undo[r]
        THEN [reservation_slots[s] EXCEPT !.slot = @ + 1]
        ELSE reservation_slots[s]]

\* A rollback that leaves the inserted rows in the table, committed.
RollbackKeepsRows(r, table) == {[row EXCEPT !.tx = 0] : row \in table}

RollbackRows(r, table) == {row \in table : row.tx # r}

\* An end of transaction that leaves its row locks in place.
ReleaseNothing(r) == rowLock

\* The end of a transaction releases its row locks.
ReleaseLocks(r) == [s \in SlotIds |-> IF rowLock[s] = r THEN 0 ELSE rowLock[s]]

Rollback(r) ==
    /\ reservation_slots' = RollbackSlots(r)
    /\ livestreams' = RollbackRows(r, livestreams)
    /\ livestream_tags' = RollbackRows(r, livestream_tags)
    /\ rowLock' = ReleaseLocks(r)
    /\ undo' = [undo EXCEPT ![r] = {}]

CommitRows(r, table) ==
    {IF row.tx = r THEN [row EXCEPT !.tx = 0] ELSE row : row \in table}

\* The handler returns: its locals are gone.
Return(r) ==
    /\ pc' = [pc EXCEPT ![r] = "done"]
    /\ plan' = [plan EXCEPT ![r] = "exact"]
    /\ scanned' = [scanned EXCEPT ![r] = 0]
    /\ slots' = [slots EXCEPT ![r] = <<>>]
    /\ idx' = [idx EXCEPT ![r] = 0]

\* A handler exit with an HTTP error: the deferred Rollback runs.
FailWith(r, status, msg, detail) ==
    /\ Rollback(r)
    /\ Return(r)
    /\ livestream' = [livestream EXCEPT ![r] = NoLivestream]
    /\ result' = [result EXCEPT ![r] = [status |-> status, msg |-> msg, detail |-> detail]]

Fail(r, status, msg) == FailWith(r, status, msg, "")

\* ------------------------------------------------------------------ Init
\* The seeded rows: consecutive buckets from the start of the term.
SlotStart(s) == termStartAt + (s - 1) * SlotWidth
SlotEnd(s) == termStartAt + s * SlotWidth

SeedRows(cap) ==
    [s \in SlotIds |-> [slot |-> cap[s], start_at |-> SlotStart(s), end_at |-> SlotEnd(s)]]

\* The store holds the seeded slots, the rows and links of earlier
\* livestreams and a theme row for the users in th.
InitStore(in, rows, links, th) ==
    /\ seed = [s \in SlotIds |-> MaxCapacity]
    /\ reservation_slots = SeedRows(seed)
    /\ livestreams = rows
    /\ livestream_tags = links
    /\ nextLivestreamID = Cardinality(rows) + 1
    /\ nextLivestreamTagID = Cardinality(links) + 1
    /\ themes = th
    /\ rowLock = [s \in SlotIds |-> 0]
    /\ undo = [r \in Reqs |-> {}]
    /\ pc = [r \in Reqs |-> "idle"]
    /\ req = [r \in Reqs |-> NoReq]
    /\ plan = [r \in Reqs |-> "exact"]
    /\ scanned = [r \in Reqs |-> 0]
    /\ slots = [r \in Reqs |-> <<>>]
    /\ idx = [r \in Reqs |-> 0]
    /\ livestreamID = [r \in Reqs |-> 0]
    /\ livestream = [r \in Reqs |-> NoLivestream]
    /\ result = [r \in Reqs |-> NoResult]
    /\ response = NoResponse
    /\ inputs = in

InitWith(in) == InitStore(in, {}, {}, Users)

\* Concurrent requests for: the first bucket; the first bucket and half of
\* the second; the second and third bucket; half of the second bucket and
\* the third.
ConcurrentInputs ==
    [windows |-> {<<SlotStart(1), SlotEnd(1)>>, <<SlotStart(1), SlotEnd(1) + 1>>,
                  <<SlotStart(2), SlotEnd(3)>>, <<SlotStart(2) + 1, SlotEnd(3)>>},
     tags |-> {<<1>>},
     users |-> {1},
     texts |-> {<<"title", "description", "playlist", "thumbnail">>},
     plans |-> {"exact", "range"},
     errors |-> {LockWaitTimeout},
     requests |-> NumReqs]

Init == InitWith(ConcurrentInputs)

\* Concurrent requests for the first bucket, where every two of them meet
\* on the first slot row, and for a window after the term.
FairInputs ==
    [windows |-> {<<SlotStart(1), SlotEnd(1)>>, <<termEndAt, termEndAt + 1>>},
     tags |-> {<<1>>},
     users |-> {1},
     texts |-> {<<"title", "description", "playlist", "thumbnail">>},
     plans |-> {"exact", "range"},
     errors |-> {LockWaitTimeout},
     requests |-> NumReqs]

InitFair == InitWith(FairInputs)

\* One request, with any window over the times around the term bounds, the
\* first slot and the largest int64.
ValidationTimes ==
    {termStartAt - 1, termStartAt, termStartAt + 1, termStartAt + SlotWidth,
     termEndAt - 1, termEndAt, termEndAt + 1, MaxInt64}

ValidationInputs ==
    [windows |-> ValidationTimes \X ValidationTimes,
     tags |-> {<<>>, <<1, 3>>},
     users |-> {1},
     texts |-> {<<"title", "description", "playlist", "thumbnail">>},
     plans |-> {"exact", "range"},
     errors |-> {LockWaitTimeout},
     requests |-> 1]

InitValidation == InitWith(ValidationInputs)

\* Requests that book and requests that read, side by side.
ReadInputs ==
    [windows |-> {<<SlotStart(1), SlotEnd(1)>>, <<SlotStart(2), SlotEnd(2)>>},
     tags |-> {<<2, 1, 1>>},
     users |-> {1, 2},
     texts |-> {<<"title", "description", "playlist", "thumbnail">>},
     plans |-> {"exact"},
     errors |-> {LockWaitTimeout},
     requests |-> 2,
     tagNames |-> {"", "tag1"},
     limits |-> {""},
     sessions |-> {1},
     userNames |-> {"user1", "nobody"},
     ids |-> {"1", "3"},
     failing |-> {"get"}]

InitRead == InitWith(ReadInputs)

\* A store of up to MaxRecords livestreams: any owner, among them user 3 who
\* has no users row, any of the tag lists, among them tag 3 which has no
\* tags row, and theme rows for all users or for all but the last.
ComposeOwners == Users \cup {3}
ComposeTags == {<<>>, <<2, 1>>, <<1, 3>>}

RECURSIVE LinksBefore(_, _)
LinksBefore(tagsOf, k) ==
    IF k = 1 THEN 0 ELSE LinksBefore(tagsOf, k - 1) + Len(tagsOf[k - 1])

StoredRows(ownerOf) ==
    {[id |-> k, user_id |-> ownerOf[k], title |-> "title", description |-> "description",
      playlist_url |-> "playlist", thumbnail_url |-> "thumbnail",
      start_at |-> SlotStart(1), end_at |-> SlotEnd(1), tx |-> 0] : k \in DOMAIN ownerOf}

StoredLinks(tagsOf) ==
    UNION {{[id |-> LinksBefore(tagsOf, k) + i, livestream_id |-> k,
             tag_id |-> tagsOf[k][i], tx |-> 0] : i \in 1..Len(tagsOf[k])} : k \in DOMAIN tagsOf}

ComposeInputs ==
    [windows |-> {}, tags |-> {}, users |-> {}, texts |-> {}, plans |-> {},
     errors |-> {LockWaitTimeout},
     requests |-> 0,
     tagNames |-> {"", "tag1"},
     limits |-> {"", "1", "-1", "x"},
     sessions |-> {1, 3},
     userNames |-> {"user1", "nobody"},
     ids |-> {"1", "3", "x"},
     failing |-> {"search", "my", "user", "get"}]

InitCompose ==
    \E K \in 0..MaxRecords :
        \E ownerOf \in [1..K -> ComposeOwners], tagsOf \in [1..K -> ComposeTags],
           th \in {Users, Users \ {2}} :
            InitStore(ComposeInputs, StoredRows(ownerOf), StoredLinks(tagsOf), th)

\* --------------------------------------------------------------- actions
\* Requests are numbered in the order they arrive.
Arrives(r) ==
    /\ pc[r] = "idle"
    /\ r <= inputs.requests
    /\ \A q \in Reqs : q < r => pc[q] # "idle"

\* lines 72-94: session, JSON body, BeginTxx.
Begin(r) ==
    /\ Arrives(r)
    /\ \E w \in inputs.windows, t \in inputs.tags, u \in inputs.users, b \in inputs.texts :
          req' = [req EXCEPT ![r] =
                    [start_at |-> w[1], end_at |-> w[2], tags |-> t, user_id |-> u,
                     title |-> b[1], description |-> b[2],
                     playlist_url |-> b[3], thumbnail_url |-> b[4]]]
    /\ pc' = [pc EXCEPT ![r] = "validate"]
    /\ UNCHANGED <<dbVars, idVars, plan, scanned, slots, idx, livestreamID, livestream, result, envVars>>

\* line 92: BeginTxx fails; no transaction was opened.
BeginFails(r) ==
    /\ Arrives(r)
    /\ pc' = [pc EXCEPT ![r] = "done"]
    /\ \E e \in inputs.errors :
          result' = [result EXCEPT ![r] =
                        [status |-> 500, msg |-> "failed to begin transaction: ", detail |-> e]]
    /\ UNCHANGED <<dbVars, idVars, req, plan, scanned, slots, idx, livestreamID, livestream, envVars>>

\* lines 97-106: the term check.
Validate(r) ==
    /\ pc[r] = "validate"
    /\ IF BadTermRange(req[r].start_at, req[r].end_at)
       THEN Fail(r, 400, "bad reservation time range")
       ELSE /\ pc' = [pc EXCEPT ![r] = "select_for_update"]
            /\ \E p \in inputs.plans : plan' = [plan EXCEPT ![r] = p]
            /\ UNCHANGED <<dbVars, livestream, result, scanned, slots, idx>>
    /\ UNCHANGED <<idVars, req, livestreamID, envVars>>

\* A lock that excludes nobody.
LockFreeBug(s, r) == TRUE

\* FOR UPDATE: a row lock is exclusive.
LockFree(s, r) == rowLock[s] \in {0, r}

\* line 111: SELECT ... FOR UPDATE locks the next row of its scan; it waits
\* while another transaction holds that row.
LockSlotRow(r) ==
    /\ pc[r] = "select_for_update"
    /\ scanned[r] < Len(ScanRows(r))
    /\ LET s == ScanRows(r)[scanned[r] + 1]
       IN /\ LockFree(s, r)
          /\ rowLock' = [rowLock EXCEPT ![s] = r]
    /\ scanned' = [scanned EXCEPT ![r] = @ + 1]
    /\ UNCHANGED <<reservation_slots, livestreams, livestream_tags, undo, idVars,
                   pc, req, plan, slots, idx, livestreamID, livestream, result, envVars>>

\* line 111: the scan is over, the statement returns the matching rows.
SelectSlots(r) ==
    /\ pc[r] = "select_for_update"
    /\ scanned[r] = Len(ScanRows(r))
    /\ slots' = [slots EXCEPT ![r] = Ascending(MatchedSlots(r))]
    /\ idx' = [idx EXCEPT ![r] = 1]
    /\ pc' = [pc EXCEPT ![r] = IF MatchedSlots(r) = {} THEN "update" ELSE "check"]
    /\ UNCHANGED <<dbVars, idVars, req, plan, scanned, livestreamID, livestream, result, envVars>>

\* line 121 with an off-by-one bound.
NoCapacityBug(count) == count < 0

\* line 121: if count < 1.
NoCapacity(count) == count < 1

\* A loop that stops after its first turn.
LastSlotBug(r) == TRUE

\* lines 115-124: the loop over slots has checked its last row.
LastSlot(r) == idx[r] = Len(slots[r])

\* lines 115-124: one turn of the loop over slots.
CheckSlot(r) ==
    /\ pc[r] = "check"
    /\ LET count == reservation_slots[slots[r][idx[r]]].slot
       IN IF NoCapacity(count)
          THEN Fail(r, 400, "not reservable")
          ELSE /\ idx' = [idx EXCEPT ![r] = @ + 1]
               /\ pc' = [pc EXCEPT ![r] = IF LastSlot(r) THEN "update" ELSE "check"]
               /\ UNCHANGED <<dbVars, livestream, result, plan, scanned, slots>>
    /\ UNCHANGED <<idVars, req, livestreamID, envVars>>

\* An UPDATE that reaches only the first row of the window.
UpdatedRowsFirstOnly(r) ==
    IF MatchedSlots(r) = {} THEN {} ELSE {CHOOSE s \in MatchedSlots(r) : \A t \in MatchedSlots(r) : s <= t}

\* line 138: UPDATE reservation_slots SET slot = slot - 1 WHERE ...
UpdatedRows(r) == MatchedSlots(r)

UpdateSlots(r) ==
    /\ pc[r] = "update"
    /\ reservation_slots' =
          [s \in SlotIds |->
              IF s \in UpdatedRows(r)
              THEN [reservation_slots[s] EXCEPT !.slot = @ - 1]
              ELSE reservation_slots[s]]
    /\ undo' = [undo EXCEPT ![r] = UpdatedRows(r)]
    /\ pc' = [pc EXCEPT ![r] = "insert"]
    /\ UNCHANGED <<livestreams, livestream_tags, rowLock, idVars, req, plan, scanned,
                   slots, idx, livestreamID, livestream, result, envVars>>

\* lines 142-151: INSERT INTO livestreams, LastInsertId.
InsertLivestream(r) ==
    /\ pc[r] = "insert"
    /\ livestreams' = livestreams \cup {Row(livestreamModel(r, nextLivestreamID), r)}
    /\ nextLivestreamID' = nextLivestreamID + 1
    /\ livestreamID' = [livestreamID EXCEPT ![r] = nextLivestreamID]
    /\ idx' = [idx EXCEPT ![r] = 1]
    /\ pc' = [pc EXCEPT ![r] = IF req[r].tags = <<>> THEN "fill" ELSE "tags"]
    /\ UNCHANGED <<reservation_slots, livestream_tags, rowLock, undo, nextLivestreamTagID,
                   req, plan, scanned, slots, livestream, result, envVars>>

\* lines 154-161: one turn of the loop over req.Tags.
InsertTag(r) ==
    /\ pc[r] = "tags"
    /\ livestream_tags' = livestream_tags \cup
          {[id |-> nextLivestreamTagID, livestream_id |-> livestreamID[r],
            tag_id |-> req[r].tags[idx[r]], tx |-> r]}
    /\ nextLivestreamTagID' = nextLivestreamTagID + 1
    /\ idx' = [idx EXCEPT ![r] = @ + 1]
    /\ pc' = [pc EXCEPT ![r] = IF idx[r] = Len(req[r].tags) THEN "fill" ELSE "tags"]
    /\ UNCHANGED <<reservation_slots, livestreams, rowLock, undo, nextLivestreamID,
                   req, plan, scanned, slots, livestreamID, livestream, result, envVars>>

\* lines 163-166: fillLivestreamResponse inside the transaction, on the
\* model the handler built (not on a row read back).
Filled(r) == fillLivestreamResponse(r, livestreamModel(r, livestreamID[r]))

FillFails(r) == Filled(r).err # ""

Fill(r) ==
    /\ pc[r] = "fill"
    /\ IF FillFails(r)
       THEN FailWith(r, 500, "failed to fill livestream: ", Filled(r).err)
       ELSE /\ pc' = [pc EXCEPT ![r] = "commit"]
            /\ livestream' = [livestream EXCEPT ![r] = Filled(r).livestream]
            /\ UNCHANGED <<dbVars, result, plan, scanned, slots, idx>>
    /\ UNCHANGED <<idVars, req, livestreamID, envVars>>

\* lines 168-172: tx.Commit() and the 201 response.
Commit(r) ==
    /\ pc[r] = "commit"
    /\ livestreams' = CommitRows(r, livestreams)
    /\ livestream_tags' = CommitRows(r, livestream_tags)
    /\ rowLock' = ReleaseLocks(r)
    /\ undo' = [undo EXCEPT ![r] = {}]
    /\ Return(r)
    /\ result' = [result EXCEPT ![r] = [status |-> 201, msg |-> "", detail |-> ""]]
    /\ UNCHANGED <<reservation_slots, idVars, req, livestreamID, livestream, envVars>>

\* A statement of the open transaction returns an error (lock wait timeout,
\* lost connection, cancelled request context): lines 113, 118, 139, 144,
\* 149, 159, 165, 169.  The handler returns 500 and the deferred Rollback runs.
\* The message goes out with the text of the storage error appended.
ErrorAt(at) ==
    CASE at \in {"select_for_update", "check"} -> "failed to get reservation_slots: "
      [] at = "update" -> "failed to update reservation_slot: "
      [] at = "insert" -> "failed to insert livestream: "
      [] at = "tags" -> "failed to insert livestream tag: "
      [] at = "fill" -> "failed to fill livestream: "
      [] at = "commit" -> "failed to commit: "

StorageError(r) ==
    /\ pc[r] \in InTx \ {"validate"}
    /\ \E e \in inputs.errors : FailWith(r, 500, ErrorAt(pc[r]), e)
    /\ UNCHANGED <<idVars, req, livestreamID, envVars>>

\* --------------------------------------------------------- read handlers
\* A read handler runs in one transaction that writes nothing.  Committed
\* livestream and livestream tag rows never change and a livestream commits
\* together with its tags, so what its statements read one after the other
\* is what they would read at one instant: a handler is one step.

\* lines 215 and 540: strconv.Atoi, on the parameter texts requests are
\* drawn from.
Atoi(s) ==
    CASE s = "0" -> [err |-> "", n |-> 0]
      [] s = "1" -> [err |-> "", n |-> 1]
      [] s = "2" -> [err |-> "", n |-> 2]
      [] s = "3" -> [err |-> "", n |-> 3]
      [] s = "-1" -> [err |-> "", n |-> -1]
      [] OTHER -> [err |-> "strconv.Atoi: parsing " \o s \o ": invalid syntax", n |-> 0]

ScanAll(rows) == [i \in 1..Len(rows) |-> Scan(rows[i])]

\* lines 188-208: livestreams JOIN livestream_tags JOIN tags WHERE
\* tags.name = ? ORDER BY livestreams.id DESC: one row per link to the tag.
JoinByTag(keyTagName) ==
    {j \in Seen(0, livestreams) \X Seen(0, livestream_tags) :
        /\ j[2].livestream_id = j[1].id
        /\ j[2].tag_id \in TagCatalog
        /\ TagName(j[2].tag_id) = keyTagName}

RECURSIVE OrderByLivestreamDesc(_)
OrderByLivestreamDesc(J) ==
    IF J = {} THEN <<>>
    ELSE LET m == CHOOSE x \in J : \A y \in J :
                     x[1].id > y[1].id \/ (x[1].id = y[1].id /\ x[2].id <= y[2].id)
         IN <<Scan(m[1])>> \o OrderByLivestreamDesc(J \ {m})

\* line 213: SELECT * FROM livestreams ORDER BY id DESC, and LIMIT n (214-220).
OrderByIDDesc(S) == ScanAll(Reverse(OrderByID(S)))
Limit(s, n) == SubSeq(s, 1, IF n < Len(s) THEN n ELSE Len(s))

\* lines 228-300: userMap, from the one statement over users JOIN themes.
UserMap(models) ==
    LET userIDs == {models[i].user_id : i \in 1..Len(models)}
    IN [u \in {u \in userIDs : u \in Users /\ u \in themes} |->
           [id |-> u, name |-> UserName(u), theme |-> u]]

\* lines 303-347: tagsMap, from the one statement over tags JOIN
\* livestream_tags ORDER BY livestream_tags.id.
TagsMap(models) ==
    LET livestreamIDs == {models[i].id : i \in 1..Len(models)}
        tagModels == OrderByID({t \in Seen(0, livestream_tags) :
                                   t.livestream_id \in livestreamIDs /\ t.tag_id \in TagCatalog})
        of(id) == SelectSeq(tagModels, LAMBDA t : t.livestream_id = id)
    IN [id \in {tagModels[i].livestream_id : i \in 1..Len(tagModels)} |->
           [i \in 1..Len(of(id)) |-> TagOf(of(id)[i].tag_id)]]

\* lines 350-369: batch composition of the records found.
BatchCompose(models) ==
    LET userMap == UserMap(models)
        tagsMap == TagsMap(models)
    IN [i \in 1..Len(models) |->
           LET m == models[i]
           IN [id |-> m.id,
               owner |-> IF m.user_id \in DOMAIN userMap THEN userMap[m.user_id] ELSE NoUser,
               title |-> m.title, description |-> m.description,
               playlist_url |-> m.playlist_url, thumbnail_url |-> m.thumbnail_url,
               tags |-> IF m.id \in DOMAIN tagsMap THEN tagsMap[m.id] ELSE <<>>,
               start_at |-> m.start_at, end_at |-> m.end_at]]

\* lines 353-356: whether the tag list of record m goes out as Go's nil
\* slice (null).  tags, ok := tagsMap[id] yields nil on a map miss, and
\* if !ok the handler puts make([]Tag, 0) in its place.
NilTags(tagsMap, m) ==
    LET ok == m.id \in DOMAIN tagsMap
    IN IF ~ok THEN FALSE ELSE ~ok

\* A fetch of the tags of every record by itself.
TagFetchesPerRecord(models) == Len(models)

\* line 235: the one statement over users runs if there is an owner id.
UserFetches(models) == IF {models[i].user_id : i \in 1..Len(models)} # {} THEN 1 ELSE 0

\* line 305: the one statement over tags runs if there is a record.
TagFetches(models) == IF Len(models) > 0 THEN 1 ELSE 0

\* The answer to a read: body is the list of aggregates, nilTags the places
\* in it whose tag list is nil, and the two counts are the statements run
\* to fetch owners and to fetch tags.
RespondList(op, arg, status, msg, detail, body, nilTags, userFetches, tagFetches) ==
    response' = [op |-> op, arg |-> arg, status |-> status, msg |-> msg, detail |-> detail,
                 body |-> body, nilTags |-> nilTags,
                 userFetches |-> userFetches, tagFetches |-> tagFetches]

\* An answer whose tag lists were all made with make([]Tag, n) (line 640).
Respond(op, arg, status, msg, detail, body, userFetches, tagFetches) ==
    RespondList(op, arg, status, msg, detail, body, {}, userFetches, tagFetches)

Refuse(op, arg, status, msg, detail) == Respond(op, arg, status, msg, detail, <<>>, 0, 0)

ReadOnly == UNCHANGED <<dbVars, idVars, reqVars, seed, inputs, themes>>

\* lines 175-376: searchLivestreamsHandler.
Search(tag, limit) ==
    LET arg == <<tag, limit>>
        models == IF tag # "" THEN OrderByLivestreamDesc(JoinByTag(tag))
                  ELSE IF limit # "" THEN Limit(OrderByIDDesc(Seen(0, livestreams)), Atoi(limit).n)
                  ELSE OrderByIDDesc(Seen(0, livestreams))
        nilTags == {i \in 1..Len(models) : NilTags(TagsMap(models), models[i])}
    IN /\ IF tag = "" /\ limit # "" /\ Atoi(limit).err # ""
          THEN Refuse("search", arg, 400, "limit query parameter must be integer", "")
          ELSE IF tag = "" /\ limit # "" /\ Atoi(limit).n < 0
          THEN Refuse("search", arg, 500, "failed to get livestreams: ", SyntaxError)
          ELSE RespondList("search", arg, 200, "", "", BatchCompose(models), nilTags,
                           UserFetches(models), TagFetches(models))
       /\ ReadOnly

\* The loop of lines 400-406 and 443-449: single-item composition of each
\* record in turn; the first error ends the handler.
FillEach(op, arg, models) ==
    LET filled == [i \in 1..Len(models) |-> fillLivestreamResponse(0, models[i])]
        bad == {i \in 1..Len(models) : filled[i].err # ""}
    IN IF bad # {}
       THEN Refuse(op, arg, 500, "failed to fill livestream: ",
                   filled[CHOOSE i \in bad : \A j \in bad : i <= j].err)
       ELSE Respond(op, arg, 200, "", "", [i \in 1..Len(models) |-> filled[i].livestream],
                    Len(models), Len(models))

\* lines 396 and 439: SELECT * FROM livestreams WHERE user_id = ?, read
\* through KEY user_id (line 789) or the primary key: in the order of id.
LivestreamsOf(userID) ==
    ScanAll(OrderByID({l \in Seen(0, livestreams) : l.user_id = userID}))

\* lines 378-413: getMyLivestreamsHandler, for the user of the session.
GetMyLivestreams(userID) ==
    /\ FillEach("my", <<userID>>, LivestreamsOf(userID))
    /\ ReadOnly

\* A lookup that never reports sql.ErrNoRows as such.
NoRowsBug(rows) == FALSE

\* lines 431 and 553: errors.Is(err, sql.ErrNoRows) after a GetContext.
NoRows(rows) == rows = {}

\* lines 415-456: getUserLivestreamsHandler.
GetUserLivestreams(username) ==
    LET rows == {u \in Users : UserName(u) = username}
    IN /\ IF NoRows(rows)
          THEN Refuse("user", <<username>>, 404, "user not found", "")
          ELSE IF rows = {}
          THEN Refuse("user", <<username>>, 500, "failed to get user: ", ErrNoRows)
          ELSE FillEach("user", <<username>>, LivestreamsOf(CHOOSE u \in rows : TRUE))
       /\ ReadOnly

\* lines 533-570: getLivestreamHandler.
GetLivestream(param) ==
    LET id == Atoi(param)
        rows == {l \in Seen(0, livestreams) : l.id = id.n}
    IN /\ IF id.err # ""
          THEN Refuse("get", <<param>>, 400, "livestream_id in path must be integer", "")
          ELSE IF NoRows(rows)
          THEN Refuse("get", <<param>>, 404, "not found livestream that has the given id", "")
          ELSE IF rows = {}
          THEN Refuse("get", <<param>>, 500, "failed to get livestream: ", ErrNoRows)
          ELSE FillEach("get", <<param>>, <<Scan(CHOOSE l \in rows : TRUE)>>)
       /\ ReadOnly

\* A statement of a read handler (BeginTxx, a SELECT, Commit) returns an
\* error: 500 with the text of the error appended.
ReadError(op) ==
    /\ \E e \in inputs.errors :
          Refuse(op, <<>>, 500,
                 CASE op = "search" -> "failed to get livestreams: "
                   [] op = "my" -> "failed to get livestreams: "
                   [] op = "user" -> "failed to get user: "
                   [] op = "get" -> "failed to get livestream: ",
                 e)
    /\ ReadOnly

Reads ==
    \/ \E tag \in inputs.tagNames, limit \in inputs.limits : Search(tag, limit)
    \/ \E u \in inputs.sessions : GetMyLivestreams(u)
    \/ \E n \in inputs.userNames : GetUserLivestreams(n)
    \/ \E p \in inputs.ids : GetLivestream(p)
    \/ \E op \in inputs.failing : ReadError(op)

Next ==
    \E r \in Reqs :
        \/ Begin(r)
        \/ BeginFails(r)
        \/ Validate(r)
        \/ LockSlotRow(r)
        \/ SelectSlots(r)
        \/ CheckSlot(r)
        \/ UpdateSlots(r)
        \/ InsertLivestream(r)
        \/ InsertTag(r)
        \/ Fill(r)
        \/ Commit(r)
        \/ StorageError(r)

Spec == Init /\ [][Next]_vars

\* The steps of the handler of request r once it runs: the server gives
\* every handler its goroutine, every statement returns (a lock wait ends
\* with the lock or with the timeout), so a handler that can step does.
Handler(r) ==
    \/ Validate(r)
    \/ LockSlotRow(r)
    \/ SelectSlots(r)
    \/ CheckSlot(r)
    \/ UpdateSlots(r)
    \/ InsertLivestream(r)
    \/ InsertTag(r)
    \/ Fill(r)
    \/ Commit(r)
    \/ StorageError(r)

SpecFair == InitFair /\ [][Next]_vars /\ \A r \in Reqs : WF_vars(Handler(r))

SpecValidation == InitValidation /\ [][Next]_vars

\* Bookings and reads.
NextRead == Next \/ Reads

SpecRead == InitRead /\ [][NextRead]_vars

\* Reads of a store that holds livestreams already.
SpecCompose == InitCompose /\ [][Reads]_vars

\* ---------------------------------------------------------------- claims
Started(r) == pc[r] # "idle" /\ req[r] # NoReq
Done(r) == pc[r] = "done"
Created(r) == Done(r) /\ result[r].status = 201
Rejected(r, msg) == Done(r) /\ result[r].status = 400 /\ result[r].msg = msg
Errored(r) == Done(r) /\ result[r].status = 500

\* The request holds every lock of its locking read and has not yet ended
\* its transaction.
PostLock == {"check", "update", "insert", "tags", "fill", "commit"}

\* r waits in its locking read for a row lock that q holds.
Waits(r, q) ==
    /\ pc[r] = "select_for_update"
    /\ scanned[r] < Len(ScanRows(r))
    /\ rowLock[ScanRows(r)[scanned[r] + 1]] = q

\* The windows share no stretch of time (they may touch) / lie apart /
\* share a stretch of time.
Disjoint(r, q) == req[r].end_at <= req[q].start_at \/ req[q].end_at <= req[r].start_at
Apart(r, q) == req[r].end_at < req[q].start_at \/ req[q].end_at < req[r].start_at
Overlap(r, q) ==
    /\ req[r].start_at < req[r].end_at
    /\ req[q].start_at < req[q].end_at
    /\ ~Disjoint(r, q)

\* The window of r is exactly the bucket of slot s.
OnBucket(r, s) == req[r].start_at = SlotStart(s) /\ req[r].end_at = SlotEnd(s)

\* Committed livestreams whose window holds the bucket of slot s.
Covering(s) ==
    {l \in CommittedLivestreams :
        reservation_slots[s].start_at >= l.start_at /\ reservation_slots[s].end_at <= l.end_at}

\* The livestream row of request r is visible to other transactions.
Visible(r) == \E l \in CommittedLivestreams : l.id = livestreamID[r]

\* C1: the slot value of every reservation slot row is >= 0 in every
\* reachable state, in the row as last written and as committed, whatever
\* the interleaving of reserve requests that commit, are rejected or fail.
C1_CapacityNeverNegative ==
    \A s \in SlotIds : reservation_slots[s].slot >= 0 /\ CommittedSlot(s) >= 0

\* A slot is used up by one request and another was turned away for it.
C1_Witness ==
    \E s \in SlotIds, r \in Reqs, q \in Reqs :
        /\ reservation_slots[s].slot = 0
        /\ Rejected(r, "not reservable") /\ s \in MatchedSlots(r)
        /\ Created(q) /\ s \in MatchedSlots(q)

\* C2: two requests for the identical bucket, which has room for one more
\* booking: once both have returned without a storage error, exactly one
\* has committed, the other was rejected for capacity, and the bucket is at 0.
C2_OneOfTwoWins ==
    \A r \in Reqs : Done(r) => \A q \in Reqs : Done(q) => \A s \in SlotIds :
        LET others == {o \in Reqs \ {r, q} : Created(o) /\ s \in MatchedSlots(o)}
        IN (/\ r # q
            /\ OnBucket(r, s) /\ OnBucket(q, s)
            /\ Done(r) /\ Done(q) /\ ~Errored(r) /\ ~Errored(q)
            /\ \A o \in Reqs \ {r, q} : pc[o] \in {"idle", "done"}
            /\ seed[s] - Cardinality(others) = 1)
           => /\ \/ Created(r) /\ Rejected(q, "not reservable")
                 \/ Created(q) /\ Rejected(r, "not reservable")
              /\ CommittedSlot(s) = 0
              /\ reservation_slots[s].slot = 0

C2_Witness ==
    \E r \in Reqs, q \in Reqs, s \in SlotIds :
        /\ r # q /\ OnBucket(r, s) /\ OnBucket(q, s) /\ seed[s] = 1
        /\ Created(r) /\ Rejected(q, "not reservable")
        /\ CommittedSlot(s) = 0

\* C3: a request that finds a slot of its window at 0 in the capacity loop
\* never goes on to the decrement; when it returns it was not admitted, and
\* that step leaves the committed slot values, livestreams and livestream
\* tags as they were, with nothing of the request pending.
C3_RejectedWhole ==
    [][\A r \in Reqs :
          (pc[r] = "check" /\ \E i \in 1..Len(slots[r]) : reservation_slots[slots[r][i]].slot < 1)
          => /\ pc'[r] \in {"check", "done"}
             /\ pc'[r] = "done"
                => /\ result'[r].status \in {400, 500}
                   /\ Committed' = Committed
                   /\ undo'[r] = {}
                   /\ \A s \in SlotIds : reservation_slots'[s].slot = reservation_slots[s].slot
       ]_vars

\* Rejected over two slots of which the first still has room.
C3_Witness ==
    \E r \in Reqs, s \in SlotIds, z \in SlotIds :
        /\ Rejected(r, "not reservable")
        /\ s \in MatchedSlots(r) /\ z \in MatchedSlots(r) /\ s < z
        /\ CommittedSlot(s) >= 1 /\ CommittedSlot(z) = 0

\* C4: a request that ends without the 201 leaves nothing: the step that
\* ends it changes no committed slot value, livestream or livestream tag and
\* leaves no pending write or lock of the request, and no row carrying its
\* livestream id is in the tables in any later state.
C4_NoTrace(r) ==
    (Done(r) /\ result[r].status # 201)
    => /\ undo[r] = {}
       /\ \A s \in SlotIds : rowLock[s] # r
       /\ \A l \in livestreams : l.tx # r /\ (livestreamID[r] # 0 => l.id # livestreamID[r])
       /\ \A t \in livestream_tags :
             t.tx # r /\ (livestreamID[r] # 0 => t.livestream_id # livestreamID[r])

C4_FailureLeavesNothing ==
    /\ [](\A r \in Reqs : C4_NoTrace(r))
    /\ [][\A r \in Reqs :
            (pc[r] # "done" /\ pc'[r] = "done" /\ result'[r].status # 201)
            => Committed' = Committed
         ]_vars

\* Failed at the commit, after the decrement and the inserts.
C4_Witness ==
    \E r \in Reqs :
        /\ Done(r) /\ result[r].msg = "failed to commit: "
        /\ livestreamID[r] # 0 /\ MatchedSlots(r) # {}

\* C5 (as claimed): every request with startAt >= endAt is rejected by the
\* validation, so it never gets past it.
C5_StartNotBeforeEndRejected ==
    \A r \in Reqs :
        (Started(r) /\ pc[r] # "validate" /\ req[r].start_at >= req[r].end_at)
        => Rejected(r, "bad reservation time range")

\* C6 (as claimed): a request gets past the term check if and only if its
\* window meets the term, that is unless startAt >= termEnd or endAt <= termStart.
C6_TermCheck ==
    \A r \in Reqs :
        (Started(r) /\ pc[r] # "validate")
        => (Rejected(r, "bad reservation time range")
            <=> (req[r].start_at >= termEndAt \/ req[r].end_at <= termStartAt))

\* C7: in the step that makes the livestream row of a request visible, the
\* committed value of every slot row of its window drops by exactly 1, that
\* of every other row stays, and no committed slot value drops in any other step.
C7_DecrementWithRow ==
    [][/\ \A r \in Reqs :
            (~Visible(r) /\ Visible(r)')
            => \A s \in SlotIds :
                  CommittedSlot(s)' =
                      CommittedSlot(s) - (IF Matches(s, req[r].start_at, req[r].end_at) THEN 1 ELSE 0)
       /\ (\E s \in SlotIds : CommittedSlot(s)' # CommittedSlot(s))
            => \E r \in Reqs : ~Visible(r) /\ Visible(r)'
      ]_vars

\* Committed over two slots.
C7_Witness ==
    \E r \in Reqs :
        /\ Created(r) /\ Visible(r)
        /\ Cardinality(MatchedSlots(r)) = 2
        /\ \A s \in MatchedSlots(r) : CommittedSlot(s) = seed[s] - 1

C9_DisjointAllSucceed ==
    LET S == {r \in Reqs : Started(r)}
    IN (\A r \in S, q \in S : r # q => Disjoint(r, q))
       => /\ \A r \in S :
               (/\ Done(r) /\ ~Errored(r)
                /\ req[r].start_at < req[r].end_at
                /\ req[r].start_at < termEndAt /\ req[r].end_at > termStartAt
                /\ \A s \in MatchedSlots(r) : seed[s] >= 1)
               => Created(r)
          /\ \A s \in SlotIds :
               (\A r \in S : s \in MatchedSlots(r) => Created(r))
               => seed[s] - CommittedSlot(s) = Cardinality({r \in S : s \in MatchedSlots(r)})

C9_Witness ==
    \E r \in Reqs, q \in Reqs :
        /\ r # q /\ Disjoint(r, q)
        /\ Created(r) /\ Created(q)
        /\ MatchedSlots(r) # {} /\ MatchedSlots(q) # {}
        /\ \A s \in MatchedSlots(r) \cup MatchedSlots(q) : CommittedSlot(s) = seed[s] - 1

TagIDs(tags) == [i \in 1..Len(tags) |-> tags[i].id]
StoredRow(id) == CHOOSE l \in livestreams : l.id = id
Answered(op) == response.op = op /\ response.status = 200

\* C11 (as claimed): every aggregate of a search result is the aggregate
\* single-item composition yields for its record, and single-item
\* composition succeeds on every record of a successful search.
C11_BatchEqualsSingle ==
    Answered("search")
    => \A i \in 1..Len(response.body) :
          LET single == fillLivestreamResponse(0, Scan(StoredRow(response.body[i].id)))
          IN single.err = "" /\ response.body[i] = single.livestream

\* C12: the aggregate a committed reserve request returns, and every
\* aggregate of its livestream in the answer to a read, carries the tag ids
\* of the request, in the order of the request.
C12_TagsAsRequested ==
    \A r \in Reqs :
        Created(r)
        => /\ TagIDs(livestream[r].tags) = req[r].tags
           /\ response.status = 200
              => \A i \in 1..Len(response.body) :
                    response.body[i].id = livestreamID[r]
                    => TagIDs(response.body[i].tags) = req[r].tags

\* Two livestreams whose links were inserted in turns, one of them read
\* back by id and in a search.
C12_Interleaved(r, q) ==
    \E a \in livestream_tags, b \in livestream_tags, c \in livestream_tags :
        /\ a.livestream_id = livestreamID[r] /\ c.livestream_id = livestreamID[r]
        /\ b.livestream_id = livestreamID[q]
        /\ a.id < b.id /\ b.id < c.id

C12_Witness ==
    \E r \in Reqs, q \in Reqs :
        /\ r # q /\ Created(r) /\ Created(q) /\ C12_Interleaved(r, q)
        /\ Len(req[r].tags) = 3 /\ req[r].tags[1] # req[r].tags[2]
        /\ Answered("search") /\ Len(response.body) = 2
        /\ \E i \in 1..2 : response.body[i].id = livestreamID[r]

\* C13 (as claimed): the ids of the aggregates of a search result, with or
\* without tag, descend strictly.
C13_StrictlyDescending ==
    Answered("search")
    => \A i \in 1..(Len(response.body) - 1) : response.body[i].id > response.body[i + 1].id

\* Request r holds something of an open transaction: a row lock, a
\* decrement or an inserted row that is not committed.
Holds(r) ==
    \/ \E s \in SlotIds : rowLock[s] = r
    \/ undo[r] # {}
    \/ \E l \in livestreams : l.tx = r
    \/ \E t \in livestream_tags : t.tx = r

\* C14: a request holds row locks and uncommitted writes only inside its
\* transaction, and the requests that are inside a transaction all come to
\* leave it: from some point on no request is inside one or holds anything.
C14_TransactionEnds ==
    /\ [](\A r \in Reqs : pc[r] \notin InTx => ~Holds(r))
    /\ <>[](\A r \in Reqs : pc[r] \notin InTx /\ ~Holds(r))

\* A request gave up waiting for a row of its window that another request
\* still holds, and has returned.
C14_Witness ==
    \E r \in Reqs, q \in Reqs :
        /\ r # q /\ Errored(r) /\ result[r].msg = "failed to get reservation_slots: "
        /\ ~Holds(r)
        /\ \E s \in MatchedSlots(r) : rowLock[s] = q

LinksCommitted(id) == {t \in CommittedTags : t.livestream_id = id}

C16_CreatedOnceNeverChanged ==
    /\ [](/\ \A r \in Reqs :
               Created(r)
               => /\ Cardinality({l \in livestreams : l.id = livestreamID[r]}) = 1
                  /\ StoredRow(livestreamID[r]).tx = 0
                  /\ StoredRow(livestreamID[r]).user_id = req[r].user_id
          /\ Cardinality(CommittedLivestreams) = Cardinality({r \in Reqs : Created(r)}))
    /\ [][\A l \in CommittedLivestreams :
             /\ l \in CommittedLivestreams'
             /\ LinksCommitted(l.id)' = LinksCommitted(l.id)
         ]_vars

\* Two users have a livestream each and a search has returned both.
C16_Witness ==
    \E r \in Reqs, q \in Reqs :
        /\ Created(r) /\ Created(q) /\ req[r].user_id = 1 /\ req[q].user_id = 2
        /\ Answered("search") /\ Len(response.body) = 2

\* C17: a request whose livestream row is committed has returned 201 with
\* the aggregate of that row: its generated id, the requester as composed
\* owner, and the texts and times of the request.
C17_CreatedAggregate ==
    \A r \in Reqs :
        (Done(r) /\ Visible(r))
        => /\ result[r].status = 201
           /\ livestream[r].id = livestreamID[r]
           /\ livestream[r].owner.id = req[r].user_id
           /\ livestream[r].owner.name = UserName(req[r].user_id)
           /\ livestream[r].title = req[r].title
           /\ livestream[r].description = req[r].description
           /\ livestream[r].playlist_url = req[r].playlist_url
           /\ livestream[r].thumbnail_url = req[r].thumbnail_url
           /\ livestream[r].start_at = req[r].start_at
           /\ livestream[r].end_at = req[r].end_at

\* The second livestream, booked by the second user.
C17_Witness ==
    \E r \in Reqs :
        /\ Created(r) /\ Visible(r)
        /\ livestreamID[r] = 2 /\ req[r].user_id = 2 /\ livestream[r].owner.id = 2

\* C18: get by id answers 404 exactly when no livestream row has the id,
\* and a 200 carries the one aggregate of the row with the id; list by user
\* name answers 404 exactly when no user has the name.  (An answer without
\* its parameter is that of a statement that failed.)
C18_FoundOrNotFound ==
    /\ (response.op = "get" /\ response.arg # <<>> /\ Atoi(response.arg[1]).err = "")
       => LET rows == {l \in CommittedLivestreams : l.id = Atoi(response.arg[1]).n}
          IN /\ response.status = 404 <=> rows = {}
             /\ response.status \in {200, 404}
                \/ (response.status = 500 /\ response.msg = "failed to fill livestream: ")
             /\ response.status = 200
                => /\ Len(response.body) = 1
                   /\ \E l \in rows :
                         /\ response.body[1].id = l.id
                         /\ response.body[1].owner.id = l.user_id
                         /\ response.body[1].title = l.title
    /\ (response.op = "user" /\ response.arg # <<>>)
       => LET rows == {u \in Users : UserName(u) = response.arg[1]}
          IN /\ response.status = 404 <=> rows = {}
             /\ response.status \in {200, 404}
                \/ (response.status = 500 /\ response.msg = "failed to fill livestream: ")

\* An id that no row of a store with livestreams has.
C18_Witness ==
    /\ response.op = "get" /\ response.status = 404 /\ response.arg = <<"3">>
    /\ Cardinality(livestreams) = 2

\* C19 (as claimed): the answer to list by owner and to list by user name is
\* composed with at most one fetch of identities and one fetch of tag links.
C19_OneFetchEach ==
    (response.op \in {"my", "user"} /\ response.status = 200)
    => response.userFetches <= 1 /\ response.tagFetches <= 1

\* C20 (as claimed): the message of a booking that failed on the storage
\* carries nothing of the storage error.
C20_OpaqueFailure ==
    \A r \in Reqs : Errored(r) => result[r].detail = ""

\* C21: in every step the rows of reservation_slots stay the same rows with
\* the same buckets, and the capacity of a row (its committed slot value,
\* the one every transaction but the writer reads) does not rise.  The value
\* an open transaction has written rises only when that transaction is
\* rolled back, by the unit it had taken, back to the committed value.
C21_CapacityOnlyConsumed ==
    [][/\ DOMAIN reservation_slots' = DOMAIN reservation_slots
       /\ \A s \in SlotIds :
             /\ reservation_slots'[s].start_at = reservation_slots[s].start_at
             /\ reservation_slots'[s].end_at = reservation_slots[s].end_at
             /\ CommittedSlot(s)' <= CommittedSlot(s)
             /\ reservation_slots'[s].slot > reservation_slots[s].slot
                => \E r \in Reqs :
                      /\ s \in undo[r] /\ undo'[r] = {}
                      /\ pc'[r] = "done" /\ result'[r].status # 201
                      /\ reservation_slots'[s].slot = reservation_slots[s].slot + 1
      ]_vars

\* One request has committed on the first bucket; another was rolled back
\* after its decrement of two rows, which are back at their seeded value.
C21_Witness ==
    \E r \in Reqs, q \in Reqs :
        /\ Errored(r) /\ result[r].msg = "failed to insert livestream tag: "
        /\ Cardinality(MatchedSlots(r)) = 2
        /\ \A s \in MatchedSlots(r) : reservation_slots[s].slot = seed[s]
        /\ Created(q) /\ OnBucket(q, 1) /\ CommittedSlot(1) = seed[1] - 1

\* The tag ids of the committed links of a livestream to tags of the
\* catalog, in the order of the links.
CatalogLinks(id) ==
    LET links == OrderByID({t \in CommittedTags : t.livestream_id = id /\ t.tag_id \in TagCatalog})
    IN [i \in 1..Len(links) |-> links[i].tag_id]

\* C22: a successful search has run one statement to fetch the owners and
\* one to fetch the tags when it returns records and none of either when it
\* returns no record; every record carries the tags of its links, and a
\* record without links an empty list that is not nil.
C22_SearchBatches ==
    Answered("search")
    => /\ response.userFetches = (IF Len(response.body) > 0 THEN 1 ELSE 0)
       /\ response.tagFetches = (IF Len(response.body) > 0 THEN 1 ELSE 0)
       /\ response.arg = <<"", "">> => Len(response.body) = Cardinality(CommittedLivestreams)
       /\ response.nilTags = {}
       /\ \A i \in 1..Len(response.body) :
             /\ TagIDs(response.body[i].tags) = CatalogLinks(response.body[i].id)
             /\ StoredRow(response.body[i].id).user_id \in Users \cap themes
                => response.body[i].owner.id = StoredRow(response.body[i].id).user_id
             /\ LinksCommitted(response.body[i].id) = {} => response.body[i].tags = <<>>

\* A search has returned two records, one with two tags and one with none.
C22_Witness ==
    /\ Answered("search") /\ Len(response.body) = 2
    /\ response.userFetches = 1 /\ response.tagFetches = 1
    /\ Len(response.body[1].tags) = 2 /\ response.body[2].tags = <<>>
    /\ LinksCommitted(response.body[2].id) = {}

\* The window of r shares a stretch of time with the term.
MeetsTerm(r) == req[r].start_at < termEndAt /\ req[r].end_at > termStartAt

\* The committed links of the livestream of r, as the list of their tag ids.
CommittedTagIDs(r) ==
    LET links == OrderByID(LinksCommitted(livestreamID[r]))
    IN [i \in 1..Len(links) |-> links[i].tag_id]

\* C23 (as claimed): a request whose window meets the term and holds no
\* slot row, once it has returned without a storage error, was admitted:
\* its livestream row and one link per tag of the request are committed and
\* every slot has its seeded capacity.
C23_EmptyRangeAdmitted ==
    \A r \in Reqs :
        (Done(r) /\ ~Errored(r) /\ MeetsTerm(r) /\ MatchedSlots(r) = {})
        => /\ Created(r) /\ Visible(r)
           /\ CommittedTagIDs(r) = req[r].tags
           /\ \A s \in SlotIds : CommittedSlot(s) = seed[s] /\ reservation_slots[s].slot = seed[s]

\* C24 (as claimed): a successful search that was given a limit L (the
\* text of an integer that is not negative), with or without a tag name,
\* returns at most L aggregates.
C24_AtMostLimit ==
    (/\ Answered("search")
     /\ response.arg[2] # "" /\ Atoi(response.arg[2]).err = "" /\ Atoi(response.arg[2]).n >= 0)
    => Len(response.body) <= Atoi(response.arg[2]).n

\* Committed livestreams whose window shares a stretch of time with the
\* bucket of slot s.
Intersecting(s) ==
    {l \in CommittedLivestreams :
        l.start_at < reservation_slots[s].end_at /\ l.end_at > reservation_slots[s].start_at}

\* C25 (as claimed): for every slot, the committed livestreams whose window
\* shares a stretch of time with its bucket are at most as many as the
\* capacity the slot was seeded with.
C25_NoOverbooking ==
    \A s \in SlotIds : Cardinality(Intersecting(s)) <= seed[s]

\* C26 (as claimed): no two aggregates of the answer to a search by tag name
\* are of the same livestream.
C26_EachLivestreamOnce ==
    (Answered("search") /\ response.arg[1] # "")
    => \A i \in 1..Len(response.body), j \in 1..Len(response.body) :
          i # j => response.body[i].id # response.body[j].id

\* The request lists a tag id that has no tags row.
ListsUnknownTag(r) == \E i \in 1..Len(req[r].tags) : req[r].tags[i] \notin TagCatalog

\* The links of the open transaction of r, as the list of their tag ids.
PendingTagIDs(r) ==
    LET links == OrderByID({t \in livestream_tags : t.tx = r /\ t.livestream_id = livestreamID[r]})
    IN [i \in 1..Len(links) |-> links[i].tag_id]

\* C27: a request that lists a tag id without tags row is never committed;
\* when it comes to compose its response every link of it is inserted, and
\* it leaves that step only by returning 500 for the composition, in a step
\* that changes nothing committed and leaves no row, decrement or lock of
\* the request; nothing with its livestream id is in the tables afterwards.
C27_UnknownTagRolledBack ==
    /\ [](\A r \in Reqs :
             ListsUnknownTag(r)
             => /\ pc[r] # "commit" /\ ~Created(r) /\ ~Visible(r)
                /\ pc[r] = "fill" => PendingTagIDs(r) = req[r].tags
                /\ Done(r) => C4_NoTrace(r) /\ LinksCommitted(livestreamID[r]) = {})
    /\ [][\A r \in Reqs :
             (ListsUnknownTag(r) /\ pc[r] = "fill" /\ pc'[r] # "fill")
             => /\ pc'[r] = "done"
                /\ result'[r].status = 500 /\ result'[r].msg = "failed to fill livestream: "
                /\ Committed' = Committed
                /\ ~Holds(r)'
                /\ \A s \in SlotIds : reservation_slots'[s].slot = CommittedSlot(s)
         ]_vars

\* A request with tags 1 and 3 has decremented a slot and inserted its row
\* and both links, and has returned 500 because tag 3 has no row.
C27_Witness ==
    \E r \in Reqs :
        /\ Errored(r) /\ result[r].msg = "failed to fill livestream: "
        /\ result[r].detail = ErrNoRows
        /\ req[r].tags = <<1, 3>> /\ MatchedSlots(r) # {}
        /\ livestreamID[r] = 1 /\ nextLivestreamTagID = 3
        /\ livestreams = {} /\ livestream_tags = {}
        /\ \A s \in SlotIds : reservation_slots[s].slot = seed[s]

====
